---- MODULE Spec2Model ----
\* A model of the segment storage engine of proglog: the store (length-framed
\* records behind a buffered writer), the index (a memory-mapped table of
\* 12-byte entries) and the segment that ties the two together.
\* Files are sequences of bytes; every encoding is modelled byte by byte.
EXTENDS Integers, Sequences, FiniteSets, TLC

\* ---------------------------------------------------------------- constants
lenWidth == 8
offWidth == 4
posWidth == 8
entWidth == offWidth + posWidth

\* ------------------------------------------------------------------- bounds
\* how many segment.Append calls a behaviour makes
MaxAppends == 3
\* how many times newSegment is called in a behaviour
MaxOpens == 3
\* capacity of the store's buffered writer (bufio.NewWriter), scaled down so
\* that a flush forced by a full buffer happens within MaxAppends appends
BufSize == 20

\* payloads offered to Append: empty and "bb"
Payloads == {<<>>, <<98, 98>>}
\* base offsets a segment is created with
BaseOffsets == {0, 5}
\* configurations: [MaxStoreBytes, MaxIndexBytes]
Configs ==
  { [MaxStoreBytes |-> 64, MaxIndexBytes |-> 24],
    [MaxStoreBytes |-> 20, MaxIndexBytes |-> 36],
    [MaxStoreBytes |-> 64, MaxIndexBytes |-> 30] }

\* ------------------------------------------------------------ byte helpers
RECURSIVE Zeros(_)
Zeros(n) == IF n <= 0 THEN <<>> ELSE <<0>> \o Zeros(n - 1)

Take(s, n) == SubSeq(s, 1, IF n < Len(s) THEN n ELSE Len(s))
Drop(s, n) == SubSeq(s, (IF n < 0 THEN 0 ELSE n) + 1, Len(s))

\* enc.PutUint32 / enc.PutUint64 / binary.Write: v in w bytes, big-endian
RECURSIVE PutUint(_, _)
PutUint(v, w) == IF w = 0 THEN <<>> ELSE PutUint(v \div 256, w - 1) \o <<v % 256>>

\* Values of 2^24 and more are all represented by 2^24: they exceed every
\* length, position and offset the model reaches, and only their order matters.
Huge == 256 * 256 * 256

RECURSIVE UintExact(_)
UintExact(b) == IF b = <<>> THEN 0 ELSE UintExact(SubSeq(b, 1, Len(b) - 1)) * 256 + b[Len(b)]

\* enc.Uint32 / enc.Uint64: the big-endian value of a byte slice
Uint(b) ==
  IF \E i \in 1..(Len(b) - 3) : b[i] # 0 THEN Huge ELSE UintExact(Drop(b, Len(b) - 3))

\* protobuf base-128 varint
RECURSIVE Varint(_)
Varint(n) == IF n < 128 THEN <<n>> ELSE <<128 + (n % 128)>> \o Varint(n \div 128)

\* decodes a varint at the head of b: [ok, v, rest]
RECURSIVE ReadVarint(_)
ReadVarint(b) ==
  IF b = <<>> THEN [ok |-> FALSE, v |-> 0, rest |-> <<>>]
  ELSE IF b[1] < 128 THEN [ok |-> TRUE, v |-> b[1], rest |-> Drop(b, 1)]
  ELSE LET r == ReadVarint(Drop(b, 1))
       IN [ok |-> r.ok, v |-> (b[1] - 128) + 128 * r.v, rest |-> r.rest]

\* proto.Marshal of api.Record{Value, Offset} (proto3: bytes value = 1;
\* uint64 offset = 2; a field holding its zero value is not emitted)
Marshal(value, offset) ==
  (IF Len(value) > 0 THEN <<10>> \o Varint(Len(value)) \o value ELSE <<>>)
  \o (IF offset # 0 THEN <<16>> \o Varint(offset) ELSE <<>>)

\* proto.Unmarshal into a fresh api.Record: [ok, Value, Offset]. A tag is
\* (field number * 8 + wire type); a field the message does not declare is
\* skipped by its wire type
RECURSIVE UnmarshalInto(_, _)
UnmarshalInto(b, rec) ==
  IF b = <<>> THEN rec
  ELSE
    LET t == ReadVarint(b)
        num == t.v \div 8
        wt == t.v % 8
        v == ReadVarint(t.rest)
    IN IF ~t.ok \/ num = 0 THEN [rec EXCEPT !.ok = FALSE]
       ELSE IF wt = 0 THEN
         IF ~v.ok THEN [rec EXCEPT !.ok = FALSE]
         ELSE UnmarshalInto(v.rest, IF num = 2 THEN [rec EXCEPT !.Offset = v.v] ELSE rec)
       ELSE IF wt = 2 THEN
         IF ~v.ok \/ Len(v.rest) < v.v THEN [rec EXCEPT !.ok = FALSE]
         ELSE UnmarshalInto(Drop(v.rest, v.v),
                            IF num = 1 THEN [rec EXCEPT !.Value = Take(v.rest, v.v)] ELSE rec)
       ELSE IF wt = 1 THEN
         IF Len(t.rest) < 8 THEN [rec EXCEPT !.ok = FALSE]
         ELSE UnmarshalInto(Drop(t.rest, 8), rec)
       ELSE IF wt = 5 THEN
         IF Len(t.rest) < 4 THEN [rec EXCEPT !.ok = FALSE]
         ELSE UnmarshalInto(Drop(t.rest, 4), rec)
       ELSE [rec EXCEPT !.ok = FALSE]

Unmarshal(b) == UnmarshalInto(b, [ok |-> TRUE, Value |-> <<>>, Offset |-> 0])

\* ------------------------------------------------------------------- store
\* The store's bufio.Writer over its file: w = [buf, err], err being the
\* writer's sticky error. ioOk says whether the file accepts writes during
\* this call. Result: [file, w, nn, err].
RECURSIVE BufioWrite(_, _, _, _, _)
BufioWrite(file, w, p, ioOk, nn) ==
  IF Len(p) > BufSize - Len(w.buf) /\ ~w.err THEN
    IF Len(w.buf) = 0 THEN
      \* large write, empty buffer: written directly to the file
      IF ioOk THEN BufioWrite(file \o p, w, <<>>, ioOk, nn + Len(p))
      ELSE BufioWrite(file, [w EXCEPT !.err = TRUE], p, ioOk, nn)
    ELSE
      LET n == BufSize - Len(w.buf)
          full == w.buf \o Take(p, n)
      IN IF ioOk THEN BufioWrite(file \o full, [w EXCEPT !.buf = <<>>], Drop(p, n), ioOk, nn + n)
         ELSE BufioWrite(file, [buf |-> full, err |-> TRUE], Drop(p, n), ioOk, nn + n)
  ELSE IF w.err THEN [file |-> file, w |-> w, nn |-> nn, err |-> TRUE]
  ELSE [file |-> file, w |-> [w EXCEPT !.buf = w.buf \o p], nn |-> nn + Len(p), err |-> FALSE]

\* bufio.Writer.Flush: [file, w, err]
BufioFlush(file, w, ioOk) ==
  IF w.err THEN [file |-> file, w |-> w, err |-> TRUE]
  ELSE IF Len(w.buf) = 0 THEN [file |-> file, w |-> w, err |-> FALSE]
  ELSE IF ioOk THEN [file |-> file \o w.buf, w |-> [w EXCEPT !.buf = <<>>], err |-> FALSE]
  ELSE [file |-> file, w |-> [w EXCEPT !.err = TRUE], err |-> TRUE]

\* newStore: size is the length of the file; a fresh buffered writer
newStore(file) == [open |-> TRUE, buf |-> <<>>, err |-> FALSE, size |-> Len(file)]

StoreGrowNoLen(w) == w

\* what store.Append adds to size after a complete write of w payload bytes
StoreGrow(w) == w + lenWidth

\* store.Append(p): st is the store, file the bytes of its file.
\* Result: [st, file, n, pos, err]
StoreAppend(st, file, p, ioOk) ==
  LET ok == ioOk /\ st.open
      w0 == [buf |-> st.buf, err |-> st.err]
      r1 == BufioWrite(file, w0, PutUint(Len(p), lenWidth), ok, 0)
      r2 == BufioWrite(r1.file, r1.w, p, ok, 0)
  IN IF r1.err THEN
       [st |-> [st EXCEPT !.buf = r1.w.buf, !.err = r1.w.err], file |-> r1.file,
        n |-> 0, pos |-> 0, err |-> TRUE]
     ELSE IF r2.err THEN
       [st |-> [st EXCEPT !.buf = r2.w.buf, !.err = r2.w.err], file |-> r2.file,
        n |-> 0, pos |-> 0, err |-> TRUE]
     ELSE
       [st |-> [st EXCEPT !.buf = r2.w.buf, !.err = r2.w.err,
                          !.size = st.size + StoreGrow(r2.nn)],
        file |-> r2.file, n |-> StoreGrow(r2.nn), pos |-> st.size, err |-> FALSE]

\* File.ReadAt(b, off) with len(b) = n: [err, bytes]; a short read is io.EOF
FileReadAt(open, file, off, n) ==
  IF ~open THEN [err |-> "IO", bytes |-> <<>>]
  ELSE IF n = 0 THEN [err |-> "nil", bytes |-> <<>>]
  ELSE IF Len(file) < off + n THEN [err |-> "EOF", bytes |-> <<>>]
  ELSE [err |-> "nil", bytes |-> SubSeq(file, off + 1, off + n)]

ReadFlushSkipped(file, w, ioOk) == [file |-> file, w |-> w, err |-> FALSE]

\* the s.buf.Flush() store.Read starts with
ReadFlush(file, w, ioOk) == BufioFlush(file, w, ioOk)

\* store.Read(pos): flushes, reads the length, reads the data.
\* Result: [st, file, err, bytes]
StoreRead(st, file, pos, ioOk) ==
  LET f == ReadFlush(file, [buf |-> st.buf, err |-> st.err], ioOk /\ st.open)
      st1 == [st EXCEPT !.buf = f.w.buf, !.err = f.w.err]
      size == FileReadAt(st.open, f.file, pos, lenWidth)
      b == FileReadAt(st.open, f.file, pos + lenWidth, Uint(size.bytes))
  IN IF f.err THEN [st |-> st1, file |-> f.file, err |-> "IO", bytes |-> <<>>]
     ELSE IF size.err # "nil" THEN [st |-> st1, file |-> f.file, err |-> size.err, bytes |-> <<>>]
     ELSE [st |-> st1, file |-> f.file, err |-> b.err, bytes |-> b.bytes]

\* store.Close: flush, then close the file. Result: [st, file, err]
StoreClose(st, file, ioOk) ==
  LET f == BufioFlush(file, [buf |-> st.buf, err |-> st.err], ioOk /\ st.open)
      st1 == [st EXCEPT !.buf = f.w.buf, !.err = f.w.err]
  IN IF f.err THEN [st |-> st1, file |-> f.file, err |-> TRUE]
     ELSE IF ~st.open THEN [st |-> st1, file |-> f.file, err |-> TRUE]
     ELSE [st |-> [st1 EXCEPT !.open = FALSE], file |-> f.file, err |-> FALSE]

\* ------------------------------------------------------------------- index
\* data with the bytes b written at byte offset at (0-based)
Overwrite(data, at, b) ==
  [i \in 1..Len(data) |-> IF at < i /\ i <= at + Len(b) THEN b[i - at] ELSE data[i]]

\* os.Truncate(name, n): cut, or extend with zero bytes
Truncate(data, n) == IF Len(data) >= n THEN Take(data, n) ELSE data \o Zeros(n - Len(data))

\* the size newIndex takes from os.Stat before it grows the file
StatSize(data) == Len(data)

\* newIndex(f, c): [idx, data]; the mapping covers the file as truncated
newIndex(data, c) ==
  [idx |-> [open |-> TRUE, mmapLen |-> c.MaxIndexBytes, size |-> StatSize(data)],
   data |-> Truncate(data, c.MaxIndexBytes)]

LastEntryPastEnd(size) == size \div entWidth

\* the entry index that index.Read(-1) resolves to
LastEntry(size) == (size \div entWidth) - 1

\* uint32(in) of the int64 in = far * 2^32 + r, for -2^31 <= r < 2^31: the
\* low 32 bits, which are r, or 2^32 + r (2^31 at least) for a negative r
ToUint32(far, r) == IF r >= 0 THEN r ELSE Huge

\* index.Read(in) for in = far * 2^32 + r: [err, out, pos]
IndexReadWide(idx, data, far, r) ==
  LET out == IF far = 0 /\ r = -1 THEN LastEntry(idx.size) ELSE ToUint32(far, r)
      pos == out * entWidth
  IN IF idx.size = 0 THEN [err |-> "EOF", out |-> 0, pos |-> 0]
     ELSE IF idx.size < pos + entWidth THEN [err |-> "EOF", out |-> 0, pos |-> 0]
     ELSE [err |-> "nil",
           out |-> Uint(SubSeq(data, pos + 1, pos + offWidth)),
           pos |-> Uint(SubSeq(data, pos + offWidth + 1, pos + entWidth))]

\* index.Read(in) for an in of less than 32 bits: [err, out, pos]
IndexRead(idx, data, in) == IndexReadWide(idx, data, 0, in)

EncodeEntryPayloadPos(off, pos) == PutUint(off, offWidth) \o PutUint(pos + lenWidth, posWidth)

\* the 12 bytes index.Write encodes for (off, pos)
EncodeEntry(off, pos) == PutUint(off, offWidth) \o PutUint(pos, posWidth)

IndexIsFullNoEntry(idx) == idx.mmapLen < idx.size

\* whether index.Write refuses the entry
IndexIsFull(idx) == idx.mmapLen < idx.size + entWidth

\* index.Write(off, pos): [idx, data, err]
IndexWrite(idx, data, off, pos) ==
  IF IndexIsFull(idx) THEN [idx |-> idx, data |-> data, err |-> "EOF"]
  ELSE [idx |-> [idx EXCEPT !.size = idx.size + entWidth],
        data |-> Overwrite(data, idx.size, EncodeEntry(off, pos)),
        err |-> "nil"]

CloseLengthMapped(idx) == idx.mmapLen

\* the length index.Close truncates the file to
CloseLength(idx) == idx.size

CloseOrderTruncateFirst == <<"truncate", "msync", "fsync", "close">>

\* the calls of index.Close, in the order of its statements
CloseOrder == <<"msync", "fsync", "truncate", "close">>

\* index.Close: mmap.Sync, file.Sync, file.Truncate(size), file.Close, each
\* returning at once on an error. failStep names the call that fails
\* (0: none). Result: [idx, data, err, steps], steps being the calls made
IndexClose(idx, data, failStep) ==
  LET steps == IF failStep = 0 THEN CloseOrder ELSE SubSeq(CloseOrder, 1, failStep)
      made(c) == \E k \in 1..Len(steps) : steps[k] = c
      done(c) == \E k \in 1..Len(steps) : steps[k] = c /\ k # failStep
  IN [idx |-> [idx EXCEPT !.open = idx.open /\ ~made("close")],
      data |-> IF done("truncate") THEN Truncate(data, CloseLength(idx)) ELSE data,
      err |-> failStep # 0,
      steps |-> steps]

\* ----------------------------------------------------------------- segment
VARIABLES
  config,      \* the Config every newSegment is given
  baseOffset,  \* the base offset every newSegment is given
  storeFile,   \* <baseOffset>.store on disk: [exists, data]
  indexFile,   \* <baseOffset>.index on disk: [exists, data]
  store,       \* segment.store: [open, buf, err, size]
  index,       \* segment.index: [open, mmapLen, size]
  seg,         \* the segment instance: [state, nextOffset, fresh]
  hist,        \* history: the appends that returned an offset, [value, offset, pos]
  last,        \* history: the last call and what it returned
  nAppends,    \* Append calls made so far
  nOpens,      \* newSegment calls made so far
  mmapTail,    \* bytes written to the index's mapping beyond the end of its file
  pc,          \* concurrent callers: the statement each goroutine is at
  loc,         \* concurrent callers: the locals of each goroutine's call
  mu,          \* the holder of each sync.Mutex (0: unlocked)
  done,        \* history: the calls of the goroutines that returned, in order
  calls,       \* calls the goroutines have started so far
  records,     \* server.Log.records
  gerr,        \* the package-level variable err of package log: 0 is nil, t an
               \* error of an I/O step of goroutine t
  stores       \* the stores of two different segments: [open, err]

\* the state of the single-caller segment
segVars == <<config, baseOffset, storeFile, indexFile, store, index, seg, hist, last,
             nAppends, nOpens, mmapTail>>

\* the state only concurrent callers use
conc == <<pc, loc, mu, done, calls, records, gerr, stores>>

vars == <<config, baseOffset, storeFile, indexFile, store, index, seg, hist, last,
          nAppends, nOpens, mmapTail, pc, loc, mu, done, calls, records, gerr, stores>>

\* the goroutines calling concurrently
NThreads == 2

Threads == 1..NThreads

\* the locals of a goroutine that is in no call
NoLocals == [op |-> "none", obj |-> 1, arg |-> 0, value |-> <<>>, off |-> 0, pos |-> 0,
             n |-> 0, err |-> "nil", read |-> 0, rec |-> <<>>,
             step |-> 0, failed |-> FALSE, ret |-> 0]

\* no goroutine has called anything
ConcIdle ==
  /\ pc = [t \in Threads |-> "idle"]
  /\ loc = [t \in Threads |-> NoLocals]
  /\ mu = [o \in {1, 2} |-> 0]
  /\ done = <<>>
  /\ calls = 0
  /\ records = <<>>
  /\ gerr = 0
  /\ stores = [o \in {1, 2} |-> [open |-> TRUE, err |-> FALSE]]

NoCall == [op |-> "none", arg |-> 0, err |-> "nil", off |-> 0, pos |-> 0,
           prev |-> 0, value |-> <<>>, recOff |-> 0, flag |-> FALSE,
           far |-> 0, n |-> 0, steps |-> <<>>]

Init ==
  /\ config \in Configs
  /\ baseOffset \in BaseOffsets
  /\ storeFile = [exists |-> FALSE, data |-> <<>>]
  /\ indexFile = [exists |-> FALSE, data |-> <<>>]
  /\ store = [open |-> FALSE, buf |-> <<>>, err |-> FALSE, size |-> 0]
  /\ index = [open |-> FALSE, mmapLen |-> 0, size |-> 0]
  /\ seg = [state |-> "none", nextOffset |-> 0, fresh |-> FALSE]
  /\ hist = <<>>
  /\ last = NoCall
  /\ nAppends = 0
  /\ nOpens = 0
  /\ mmapTail = <<>>
  /\ ConcIdle

\* the nextOffset newSegment derives from index.Read(-1)
OpenNextOffset(base, r) == IF r.err # "nil" THEN base ELSE base + r.out + 1

\* newSegment(dir, baseOffset, c): opens or creates both files
NewSegment ==
  /\ seg.state \in {"none", "closed", "removed"}
  /\ nOpens < MaxOpens
  /\ LET sdata == IF storeFile.exists THEN storeFile.data ELSE <<>>
         idata == IF indexFile.exists THEN indexFile.data ELSE <<>>
         ni == newIndex(idata, config)
         r == IndexRead(ni.idx, ni.data, -1)
         isNew == ~storeFile.exists /\ ~indexFile.exists
     IN /\ storeFile' = [exists |-> TRUE, data |-> sdata]
        /\ indexFile' = [exists |-> TRUE, data |-> ni.data]
        /\ store' = newStore(sdata)
        /\ index' = ni.idx
        /\ seg' = [state |-> "open", nextOffset |-> OpenNextOffset(baseOffset, r),
                   fresh |-> isNew]
        /\ hist' = IF indexFile.exists THEN hist ELSE <<>>
        \* arg: 0 on no index file, 1 after a CLose, 2 after a stop of the
        \* process; pos: the length the index file was found with
        /\ last' = [NoCall EXCEPT !.op = "Open", !.prev = seg.nextOffset,
                                  !.flag = (seg.state = "closed"),
                                  !.arg = IF ~indexFile.exists THEN 0
                                          ELSE IF seg.state = "closed" THEN 1 ELSE 2,
                                  !.pos = Len(idata),
                                  !.off = OpenNextOffset(baseOffset, r)]
  /\ nOpens' = nOpens + 1
  /\ mmapTail' = <<>>
  /\ UNCHANGED <<config, baseOffset, nAppends>>
  /\ UNCHANGED conc

AppendNextOffsetTwice(n) == n + 2

\* the nextOffset a successful segment.Append leaves
AppendNextOffset(n) == n + 1

RelOffsetAbsolute(next, base) == next

\* the relative offset segment.Append hands to index.Write
RelOffset(next, base) == next - base

\* segment.Append(record): stamp, marshal, store.Append, index.Write
SegmentAppend ==
  /\ seg.state = "open"
  /\ nAppends < MaxAppends
  /\ \E value \in Payloads, ioOk \in BOOLEAN :
       LET cur == seg.nextOffset
           p == Marshal(value, cur)
           sa == StoreAppend(store, storeFile.data, p, ioOk)
           iw == IndexWrite(index, indexFile.data, RelOffset(seg.nextOffset, baseOffset), sa.pos)
           call == [NoCall EXCEPT !.op = "Append", !.prev = cur, !.value = value,
                                  !.n = sa.n, !.pos = sa.pos]
       IN /\ store' = sa.st
          /\ storeFile' = [storeFile EXCEPT !.data = sa.file]
          /\ IF sa.err THEN
               /\ last' = [call EXCEPT !.err = "IO"]
               /\ UNCHANGED <<index, indexFile, seg, hist>>
             ELSE IF iw.err # "nil" THEN
               /\ last' = [call EXCEPT !.err = iw.err]
               /\ UNCHANGED <<index, indexFile, seg, hist>>
             ELSE
               /\ index' = iw.idx
               /\ indexFile' = [indexFile EXCEPT !.data = iw.data]
               /\ seg' = [seg EXCEPT !.nextOffset = AppendNextOffset(seg.nextOffset)]
               /\ hist' = Append(hist, [value |-> value, offset |-> cur, pos |-> sa.pos])
               /\ last' = [call EXCEPT !.off = cur]
  /\ nAppends' = nAppends + 1
  /\ UNCHANGED <<config, baseOffset, nOpens, mmapTail>>
  /\ UNCHANGED conc

\* int64(off - s.baseOffset): the wrapped difference read as a signed number
RelIn(off, base) == off - base

\* i.mmap as far as it was written: the bytes of the index file, then those
\* written to the mapping beyond the end of the file
MapBytes == indexFile.data \o mmapTail

\* segment.Read(far * 2^32 + off): [st, file, err, Value, Offset]
SegmentReadWide(far, off, ioOk) ==
  LET ir == IndexReadWide(index, MapBytes, far, RelIn(off, baseOffset))
      sr == StoreRead(store, storeFile.data, ir.pos, ioOk)
      rec == Unmarshal(sr.bytes)
  IN IF ir.err # "nil" THEN
       [st |-> store, file |-> storeFile.data, err |-> ir.err, Value |-> <<>>, Offset |-> 0]
     ELSE IF sr.err # "nil" THEN
       [st |-> sr.st, file |-> sr.file, err |-> sr.err, Value |-> <<>>, Offset |-> 0]
     ELSE
       [st |-> sr.st, file |-> sr.file, err |-> IF rec.ok THEN "nil" ELSE "Unmarshal",
        Value |-> rec.Value, Offset |-> rec.Offset]

\* segment.Read(off): [st, file, err, Value, Offset]
SegmentRead(off, ioOk) == SegmentReadWide(0, off, ioOk)

\* the offsets Read is called with: the segment's range, two below it and one
\* above it; and each of them 2^32 further (far = 1)
ReadOffsets == {o \in (baseOffset - 2)..(baseOffset + MaxAppends) : o >= 0}

\* a call of segment.Read
ReadCall ==
  /\ \E off \in ReadOffsets, far \in {0, 1}, ioOk \in BOOLEAN :
       LET r == SegmentReadWide(far, off, ioOk)
       IN /\ store' = r.st
          /\ storeFile' = [storeFile EXCEPT !.data = r.file]
          /\ last' = [NoCall EXCEPT !.op = "Read", !.arg = off, !.far = far,
                                    !.err = r.err,
                                    !.value = r.Value, !.recOff = r.Offset]
  /\ UNCHANGED <<config, baseOffset, indexFile, index, seg, hist, nAppends, nOpens,
                 mmapTail>>
  /\ UNCHANGED conc

Read ==
  /\ seg.state = "open"
  /\ ReadCall

\* segment.IsMaxed()
IsMaxed ==
  store.size >= config.MaxStoreBytes \/ index.size >= config.MaxStoreBytes

CallIsMaxed ==
  /\ seg.state = "open"
  /\ last' = [NoCall EXCEPT !.op = "IsMaxed", !.flag = IsMaxed]
  /\ UNCHANGED <<config, baseOffset, storeFile, indexFile, store, index, seg, hist,
                 nAppends, nOpens, mmapTail>>
  /\ UNCHANGED conc

\* segment.CLose(): index.Close, then store.Close; the first error is returned
CLose ==
  /\ seg.state = "open"
  /\ \E failStep \in 0..4, ioOk \in BOOLEAN :
       LET ic == IndexClose(index, indexFile.data, failStep)
           sc == StoreClose(store, storeFile.data, ioOk)
       IN /\ index' = ic.idx
          /\ indexFile' = [indexFile EXCEPT !.data = ic.data]
          /\ IF ic.err THEN
               /\ UNCHANGED <<store, storeFile>>
               /\ seg' = [seg EXCEPT !.state = "broken"]
               /\ last' = [NoCall EXCEPT !.op = "CLose", !.arg = failStep, !.err = "IO",
                                         !.steps = ic.steps]
             ELSE
               /\ store' = sc.st
               /\ storeFile' = [storeFile EXCEPT !.data = sc.file]
               /\ seg' = [seg EXCEPT !.state = IF sc.err THEN "broken" ELSE "closed"]
               /\ last' = [NoCall EXCEPT !.op = "CLose", !.arg = failStep,
                                         !.steps = ic.steps,
                                         !.err = IF sc.err THEN "IO" ELSE "nil"]
  /\ UNCHANGED <<config, baseOffset, hist, nAppends, nOpens, mmapTail>>
  /\ UNCHANGED conc

\* segment.Remove(): index.Close, os.Remove(index), os.Remove(store).
\* failStep 1..4 is a failing step of index.Close, 5 and 6 the two os.Remove.
\* A removed file has no name any more (exists = FALSE); its bytes stay with
\* the mapping and the handle that are still open on it
Remove ==
  /\ seg.state = "open"
  /\ \E failStep \in 0..6 :
       LET ic == IndexClose(index, indexFile.data, IF failStep <= 4 THEN failStep ELSE 0)
           call == [NoCall EXCEPT !.op = "Remove", !.arg = failStep, !.steps = ic.steps]
       IN /\ index' = ic.idx
          /\ IF ic.err THEN
               /\ indexFile' = [indexFile EXCEPT !.data = ic.data]
               /\ UNCHANGED storeFile
             ELSE IF failStep = 5 THEN
               /\ indexFile' = [indexFile EXCEPT !.data = ic.data]
               /\ UNCHANGED storeFile
             ELSE IF failStep = 6 THEN
               /\ indexFile' = [exists |-> FALSE, data |-> ic.data]
               /\ UNCHANGED storeFile
             ELSE
               /\ indexFile' = [exists |-> FALSE, data |-> ic.data]
               /\ storeFile' = [storeFile EXCEPT !.exists = FALSE]
          /\ seg' = [seg EXCEPT !.state = IF failStep = 0 THEN "removed" ELSE "broken"]
          /\ last' = [call EXCEPT !.err = IF failStep = 0 THEN "nil" ELSE "IO"]
  /\ UNCHANGED <<config, baseOffset, store, hist, nAppends, nOpens, mmapTail>>
  /\ UNCHANGED conc

\* the process stops: what is only in memory (the store's buffer) is gone,
\* the files stay as they are (the shared mapping's writes are in the file)
Crash ==
  /\ seg.state \in {"open", "broken"}
  /\ store' = [open |-> FALSE, buf |-> <<>>, err |-> FALSE, size |-> 0]
  /\ index' = [open |-> FALSE, mmapLen |-> 0, size |-> 0]
  /\ seg' = [seg EXCEPT !.state = "none"]
  /\ last' = [NoCall EXCEPT !.op = "Crash"]
  /\ mmapTail' = <<>>
  /\ UNCHANGED <<config, baseOffset, storeFile, indexFile, hist, nAppends, nOpens>>
  /\ UNCHANGED conc

\* the page size of the mapping
PageSize == 4 * 1024

\* an access to byte b of a shared mapping of a file of fileLen bytes raises
\* SIGBUS when b lies in a page wholly beyond the end of the file
Faults(fileLen, b) == b >= ((fileLen + PageSize - 1) \div PageSize) * PageSize

\* segment.Append on an instance whose CLose or Remove has returned nil. The
\* methods test no state: store.Append writes to the bufio.Writer, which
\* reaches the file (closed by CLose, left open by Remove) only when its
\* buffer fills; index.Write writes to the mapping, which index.Close has not
\* unmapped, beyond the end of the truncated file; the fault of such a write
\* stops the process
AppendClosed ==
  /\ seg.state \in {"closed", "removed"}
  /\ nAppends < MaxAppends
  /\ \E value \in Payloads, ioOk \in BOOLEAN :
       LET cur == seg.nextOffset
           p == Marshal(value, cur)
           sa == StoreAppend(store, storeFile.data, p, ioOk)
           call == [NoCall EXCEPT !.op = "Append", !.prev = cur, !.value = value,
                                  !.n = sa.n, !.pos = sa.pos]
       IN IF sa.err THEN
            /\ store' = sa.st
            /\ storeFile' = [storeFile EXCEPT !.data = sa.file]
            /\ last' = [call EXCEPT !.err = "IO"]
            /\ UNCHANGED <<index, seg, mmapTail>>
          ELSE IF IndexIsFull(index) THEN
            /\ store' = sa.st
            /\ storeFile' = [storeFile EXCEPT !.data = sa.file]
            /\ last' = [call EXCEPT !.err = "EOF"]
            /\ UNCHANGED <<index, seg, mmapTail>>
          ELSE IF Faults(Len(indexFile.data), index.size) THEN
            /\ store' = [open |-> FALSE, buf |-> <<>>, err |-> FALSE, size |-> 0]
            /\ storeFile' = [storeFile EXCEPT !.data = sa.file]
            /\ index' = [open |-> FALSE, mmapLen |-> 0, size |-> 0]
            /\ seg' = [seg EXCEPT !.state = "none"]
            /\ mmapTail' = <<>>
            /\ last' = [NoCall EXCEPT !.op = "Fault"]
          ELSE
            /\ store' = sa.st
            /\ storeFile' = [storeFile EXCEPT !.data = sa.file]
            /\ mmapTail' = mmapTail \o EncodeEntry(RelOffset(cur, baseOffset), sa.pos)
            /\ index' = [index EXCEPT !.size = index.size + entWidth]
            /\ seg' = [seg EXCEPT !.nextOffset = AppendNextOffset(seg.nextOffset)]
            /\ last' = [call EXCEPT !.off = cur]
  /\ nAppends' = nAppends + 1
  /\ UNCHANGED <<config, baseOffset, indexFile, hist, nOpens>>
  /\ UNCHANGED conc

\* segment.Read on an instance whose CLose or Remove has returned nil
ReadClosed ==
  /\ seg.state \in {"closed", "removed"}
  /\ ReadCall

Next == NewSegment \/ SegmentAppend \/ Read \/ CallIsMaxed \/ CLose \/ Remove

Spec == Init /\ [][Next]_vars

NextCrash == Next \/ Crash

SpecCrash == Init /\ [][NextCrash]_vars

NextTerminal == Next \/ AppendClosed \/ ReadClosed

\* the segment, its methods called on closed and removed instances as well
SpecTerminal == Init /\ [][NextTerminal]_vars

\* -------------------------------------------------------------- server.Log
\* calls the goroutines make on the Log in all
LogCalls == 4

\* the state of a segment nobody has opened
SegIdle ==
  /\ config = [MaxStoreBytes |-> 64, MaxIndexBytes |-> 24]
  /\ baseOffset = 0
  /\ storeFile = [exists |-> FALSE, data |-> <<>>]
  /\ indexFile = [exists |-> FALSE, data |-> <<>>]
  /\ store = [open |-> FALSE, buf |-> <<>>, err |-> FALSE, size |-> 0]
  /\ index = [open |-> FALSE, mmapLen |-> 0, size |-> 0]
  /\ seg = [state |-> "none", nextOffset |-> 0, fresh |-> FALSE]
  /\ hist = <<>>
  /\ last = NoCall
  /\ nAppends = 0
  /\ nOpens = 0
  /\ mmapTail = <<>>

\* the records Log.Append is called with; Append overwrites their Offset
LogInputs == {[Value |-> <<97>>, Offset |-> 0], [Value |-> <<98, 98>>, Offset |-> 9]}

\* the offsets Log.Read is called with
LogOffsets == 0..2

\* Record{}
EmptyRecord == [Value |-> <<>>, Offset |-> 0]

\* NewLog()
InitLog == SegIdle /\ ConcIdle

\* a goroutine calls Log.Append(record) or Log.Read(offset)
LogCall(t) ==
  /\ pc[t] = "idle"
  /\ calls < LogCalls
  /\ \/ \E r \in LogInputs :
          loc' = [loc EXCEPT ![t] = [NoLocals EXCEPT !.op = "Append", !.value = r.Value,
                                                     !.off = r.Offset]]
     \/ \E o \in LogOffsets :
          loc' = [loc EXCEPT ![t] = [NoLocals EXCEPT !.op = "Read", !.arg = o]]
  /\ pc' = [pc EXCEPT ![t] = "lock"]
  /\ calls' = calls + 1
  /\ UNCHANGED <<segVars, mu, done, records, gerr, stores>>

LockedNever(m) == FALSE

\* whether a sync.Mutex is held
Locked(m) == m # 0

\* c.mu.Lock()
LogLock(t) ==
  /\ pc[t] = "lock"
  /\ ~Locked(mu[1])
  /\ mu' = [mu EXCEPT ![1] = t]
  /\ pc' = [pc EXCEPT ![t] = "body"]
  /\ UNCHANGED <<segVars, loc, done, calls, records, gerr, stores>>

AppendOffsetNext(recs) == Len(recs) + 1

\* record.Offset = uint64(len(c.records))
AppendOffset(recs) == Len(recs)

\* record.Offset = uint64(len(c.records))
LogAppendStamp(t) ==
  /\ pc[t] = "body" /\ loc[t].op = "Append"
  /\ loc' = [loc EXCEPT ![t].off = AppendOffset(records)]
  /\ pc' = [pc EXCEPT ![t] = "append"]
  /\ UNCHANGED <<segVars, mu, done, calls, records, gerr, stores>>

\* c.records = append(c.records, record)
LogAppendStore(t) ==
  /\ pc[t] = "append"
  /\ records' = Append(records, [Value |-> loc[t].value, Offset |-> loc[t].off])
  /\ pc' = [pc EXCEPT ![t] = "unlock"]
  /\ UNCHANGED <<segVars, loc, mu, done, calls, gerr, stores>>

\* c == &Log{}: the address of a Log allocated for the comparison
IsFreshLog == FALSE

\* the body of Log.Read
LogReadBody(t) ==
  /\ pc[t] = "body" /\ loc[t].op = "Read"
  /\ IF loc[t].arg >= Len(records) \/ IsFreshLog
     THEN loc' = [loc EXCEPT ![t].rec = EmptyRecord, ![t].err = "ErrOffsetNotFound"]
     ELSE loc' = [loc EXCEPT ![t].rec = records[loc[t].arg + 1], ![t].err = "nil"]
  /\ pc' = [pc EXCEPT ![t] = "unlock"]
  /\ UNCHANGED <<segVars, mu, done, calls, records, gerr, stores>>

\* the deferred c.mu.Unlock(), with which the call returns
LogUnlock(t) ==
  /\ pc[t] = "unlock"
  /\ mu' = [mu EXCEPT ![1] = 0]
  /\ done' = Append(done, [t |-> t, op |-> loc[t].op, arg |-> loc[t].arg,
                           off |-> loc[t].off, err |-> loc[t].err, rec |-> loc[t].rec])
  /\ loc' = [loc EXCEPT ![t] = NoLocals]
  /\ pc' = [pc EXCEPT ![t] = "idle"]
  /\ UNCHANGED <<segVars, calls, records, gerr, stores>>

NextLog ==
  \E t \in Threads :
    LogCall(t) \/ LogLock(t) \/ LogAppendStamp(t) \/ LogAppendStore(t) \/ LogReadBody(t)
    \/ LogUnlock(t)

\* server.Log under concurrent callers
SpecLog == InitLog /\ [][NextLog]_vars

\* ------------------------------------------------- one store, many callers
\* calls the goroutines make on the store in all
StoreCalls == 3

\* the payloads the goroutines append to the store
StorePayloads == {<<7>>, <<8, 8, 8>>}

\* the positions store.Read and store.ReadAt are called with
StorePositions == {0, 9}

\* newStore on an empty file, or on one that holds a record
InitStore ==
  /\ config = [MaxStoreBytes |-> 64, MaxIndexBytes |-> 24]
  /\ baseOffset = 0
  /\ \E file \in {<<>>, PutUint(1, lenWidth) \o <<7>>} :
       /\ storeFile = [exists |-> TRUE, data |-> file]
       /\ store = newStore(file)
       /\ last = [NoCall EXCEPT !.op = "newStore", !.pos = Len(file)]
  /\ indexFile = [exists |-> FALSE, data |-> <<>>]
  /\ index = [open |-> FALSE, mmapLen |-> 0, size |-> 0]
  /\ seg = [state |-> "none", nextOffset |-> 0, fresh |-> FALSE]
  /\ hist = <<>>
  /\ nAppends = 0
  /\ nOpens = 0
  /\ mmapTail = <<>>
  /\ ConcIdle

\* what the store's callers leave alone
storeRest == <<config, baseOffset, indexFile, index, seg, hist, last, nAppends, nOpens,
               mmapTail, records, gerr, stores>>

\* a goroutine calls store.Append(p), store.Read(pos), store.ReadAt(p, off)
\* with len(p) = 8, or store.Close()
StoreCall(t) ==
  /\ pc[t] = "idle"
  /\ calls < StoreCalls
  /\ \/ \E p \in StorePayloads :
          loc' = [loc EXCEPT ![t] = [NoLocals EXCEPT !.op = "Append", !.value = p]]
     \/ \E pos \in StorePositions, op \in {"Read", "ReadAt"} :
          loc' = [loc EXCEPT ![t] = [NoLocals EXCEPT !.op = op, !.arg = pos]]
     \/ loc' = [loc EXCEPT ![t] = [NoLocals EXCEPT !.op = "Close"]]
  /\ pc' = [pc EXCEPT ![t] = "lock"]
  /\ calls' = calls + 1
  /\ UNCHANGED <<storeRest, store, storeFile, mu, done>>

\* s.mu.Lock()
StoreLock(t) ==
  /\ pc[t] = "lock"
  /\ ~Locked(mu[1])
  /\ mu' = [mu EXCEPT ![1] = t]
  /\ pc' = [pc EXCEPT ![t] = IF loc[t].op = "Append" THEN "pos" ELSE "flush"]
  /\ UNCHANGED <<storeRest, store, storeFile, loc, done, calls>>

\* store.Append: pos = s.size
StoreAppendPos(t) ==
  /\ pc[t] = "pos"
  /\ loc' = [loc EXCEPT ![t].pos = store.size]
  /\ pc' = [pc EXCEPT ![t] = "wlen"]
  /\ UNCHANGED <<storeRest, store, storeFile, mu, done, calls>>

\* store.Append: binary.Write(s.buf, enc, uint64(len(p))), then s.buf.Write(p)
StoreAppendWrite(t) ==
  /\ pc[t] \in {"wlen", "wdata"}
  /\ \E ioOk \in BOOLEAN :
       LET bytes == IF pc[t] = "wlen" THEN PutUint(Len(loc[t].value), lenWidth)
                    ELSE loc[t].value
           r == BufioWrite(storeFile.data, [buf |-> store.buf, err |-> store.err], bytes,
                           ioOk /\ store.open, 0)
       IN /\ store' = [store EXCEPT !.buf = r.w.buf, !.err = r.w.err]
          /\ storeFile' = [storeFile EXCEPT !.data = r.file]
          /\ IF r.err THEN
               /\ loc' = [loc EXCEPT ![t].err = "IO", ![t].pos = 0]
               /\ pc' = [pc EXCEPT ![t] = "unlock"]
             ELSE
               /\ loc' = [loc EXCEPT ![t].n = StoreGrow(r.nn)]
               /\ pc' = [pc EXCEPT ![t] = IF pc[t] = "wlen" THEN "wdata" ELSE "load"]
  /\ UNCHANGED <<storeRest, mu, done, calls>>

\* store.Append: s.size += uint64(w), the load of s.size
StoreAppendLoad(t) ==
  /\ pc[t] = "load"
  /\ loc' = [loc EXCEPT ![t].read = store.size]
  /\ pc' = [pc EXCEPT ![t] = "grow"]
  /\ UNCHANGED <<storeRest, store, storeFile, mu, done, calls>>

\* store.Append: s.size += uint64(w), the store to s.size
StoreAppendGrow(t) ==
  /\ pc[t] = "grow"
  /\ store' = [store EXCEPT !.size = loc[t].read + loc[t].n]
  /\ pc' = [pc EXCEPT ![t] = "unlock"]
  /\ UNCHANGED <<storeRest, storeFile, loc, mu, done, calls>>

\* store.Read, store.ReadAt, store.Close: s.buf.Flush()
StoreFlush(t) ==
  /\ pc[t] = "flush"
  /\ \E ioOk \in BOOLEAN :
       LET f == BufioFlush(storeFile.data, [buf |-> store.buf, err |-> store.err],
                           ioOk /\ store.open)
       IN /\ store' = [store EXCEPT !.buf = f.w.buf, !.err = f.w.err]
          /\ storeFile' = [storeFile EXCEPT !.data = f.file]
          /\ loc' = [loc EXCEPT ![t].err = IF f.err THEN "IO" ELSE "nil"]
          /\ pc' = [pc EXCEPT ![t] = IF f.err THEN "unlock" ELSE "file"]
  /\ UNCHANGED <<storeRest, mu, done, calls>>

\* store.Read and store.ReadAt: the File.ReadAt calls; store.Close: File.Close
StoreFile(t) ==
  /\ pc[t] = "file"
  /\ LET size == FileReadAt(store.open, storeFile.data, loc[t].arg, lenWidth)
         b == FileReadAt(store.open, storeFile.data, loc[t].arg + lenWidth, Uint(size.bytes))
     IN IF loc[t].op = "Close" THEN
          /\ store' = [store EXCEPT !.open = FALSE]
          /\ loc' = [loc EXCEPT ![t].err = IF store.open THEN "nil" ELSE "IO"]
        ELSE IF loc[t].op = "ReadAt" \/ size.err # "nil" THEN
          /\ loc' = [loc EXCEPT ![t].err = size.err, ![t].rec = size.bytes]
          /\ UNCHANGED store
        ELSE
          /\ loc' = [loc EXCEPT ![t].err = b.err, ![t].rec = b.bytes]
          /\ UNCHANGED store
  /\ pc' = [pc EXCEPT ![t] = "unlock"]
  /\ UNCHANGED <<storeRest, storeFile, mu, done, calls>>

\* the deferred s.mu.Unlock(), with which the call returns
StoreUnlock(t) ==
  /\ pc[t] = "unlock"
  /\ mu' = [mu EXCEPT ![1] = 0]
  /\ done' = Append(done, [t |-> t, op |-> loc[t].op, arg |-> loc[t].arg,
                           value |-> loc[t].value, pos |-> loc[t].pos,
                           n |-> IF loc[t].err = "nil" THEN loc[t].n ELSE 0,
                           err |-> loc[t].err, rec |-> loc[t].rec])
  /\ loc' = [loc EXCEPT ![t] = NoLocals]
  /\ pc' = [pc EXCEPT ![t] = "idle"]
  /\ UNCHANGED <<storeRest, store, storeFile, calls>>

NextStore ==
  \E t \in Threads :
    StoreCall(t) \/ StoreLock(t) \/ StoreAppendPos(t) \/ StoreAppendWrite(t)
    \/ StoreAppendLoad(t) \/ StoreAppendGrow(t) \/ StoreFlush(t) \/ StoreFile(t)
    \/ StoreUnlock(t)

\* one store under concurrent callers
SpecStore == InitStore /\ [][NextStore]_vars

\* ----------------------------------------------- one segment, many callers
\* segment.Append calls the goroutines make in all
SegCalls == 2

\* mu[2] is the mutex the callers of segment.Append share; NoMutex: they
\* share none and call without serialization
NoMutex == 0 - 1

\* a segment newSegment has just created, with room for one entry or for two,
\* and callers that either all serialize their calls or none does
InitSegAppend ==
  /\ config \in {[MaxStoreBytes |-> 64, MaxIndexBytes |-> m] : m \in {entWidth, 2 * entWidth}}
  /\ baseOffset \in BaseOffsets
  /\ storeFile = [exists |-> TRUE, data |-> <<>>]
  /\ indexFile = [exists |-> TRUE, data |-> newIndex(<<>>, config).data]
  /\ store = newStore(<<>>)
  /\ index = newIndex(<<>>, config).idx
  /\ seg = [state |-> "open", nextOffset |-> baseOffset, fresh |-> TRUE]
  /\ hist = <<>>
  /\ last = [NoCall EXCEPT !.op = "Open", !.off = baseOffset]
  /\ nAppends = 0
  /\ nOpens = 1
  /\ mmapTail = <<>>
  /\ pc = [t \in Threads |-> "idle"]
  /\ loc = [t \in Threads |-> NoLocals]
  /\ \E m \in {0, NoMutex} : mu = [o \in {1, 2} |-> IF o = 2 THEN m ELSE 0]
  /\ done = <<>>
  /\ calls = 0
  /\ records = <<>>
  /\ gerr = 0
  /\ stores = [o \in {1, 2} |-> [open |-> TRUE, err |-> FALSE]]

\* what segment.Append leaves alone
segRest == <<config, baseOffset, hist, last, nAppends, nOpens, mmapTail, records, gerr,
             stores>>

\* a goroutine calls segment.Append(record), after taking the callers' mutex
\* when they share one
SegCall(t) ==
  /\ pc[t] = "idle"
  /\ calls < SegCalls
  /\ mu[2] \in {0, NoMutex}
  /\ \E value \in Payloads :
       loc' = [loc EXCEPT ![t] = [NoLocals EXCEPT !.op = "Append", !.value = value]]
  /\ mu' = IF mu[2] = NoMutex THEN mu ELSE [mu EXCEPT ![2] = t]
  /\ pc' = [pc EXCEPT ![t] = "cur"]
  /\ calls' = calls + 1
  /\ UNCHANGED <<segRest, store, storeFile, index, indexFile, seg, done>>

\* cur := s.nextOffset; record.Offset = cur; p, err := proto.Marshal(record)
SegCur(t) ==
  /\ pc[t] = "cur"
  /\ loc' = [loc EXCEPT ![t].off = seg.nextOffset,
                        ![t].rec = Marshal(loc[t].value, seg.nextOffset)]
  /\ pc' = [pc EXCEPT ![t] = "store"]
  /\ UNCHANGED <<segRest, store, storeFile, index, indexFile, seg, mu, done, calls>>

\* _, pos, err := s.store.Append(p), one step under the store's mutex
SegStore(t) ==
  /\ pc[t] = "store"
  /\ \E ioOk \in BOOLEAN :
       LET sa == StoreAppend(store, storeFile.data, loc[t].rec, ioOk)
       IN /\ store' = sa.st
          /\ storeFile' = [storeFile EXCEPT !.data = sa.file]
          /\ loc' = [loc EXCEPT ![t].pos = sa.pos, ![t].err = IF sa.err THEN "IO" ELSE "nil"]
          /\ pc' = [pc EXCEPT ![t] = IF sa.err THEN "return" ELSE "iwrite"]
  /\ UNCHANGED <<segRest, index, indexFile, seg, mu, done, calls>>

\* s.index.Write(uint32(s.nextOffset - baseOffset), pos) up to the two
\* enc.Put calls: the entry goes to the bytes at i.size
SegIndexPut(t) ==
  /\ pc[t] = "iwrite"
  /\ IF IndexIsFull(index) THEN
       /\ loc' = [loc EXCEPT ![t].err = "EOF"]
       /\ pc' = [pc EXCEPT ![t] = "return"]
       /\ UNCHANGED indexFile
     ELSE
       /\ indexFile' = [indexFile EXCEPT !.data =
            Overwrite(indexFile.data, index.size,
                      EncodeEntry(RelOffset(seg.nextOffset, baseOffset), loc[t].pos))]
       /\ pc' = [pc EXCEPT ![t] = "iload"]
       /\ UNCHANGED loc
  /\ UNCHANGED <<segRest, store, storeFile, index, seg, mu, done, calls>>

\* i.size += uint64(entWidth), the load of i.size
SegIndexLoad(t) ==
  /\ pc[t] = "iload"
  /\ loc' = [loc EXCEPT ![t].read = index.size]
  /\ pc' = [pc EXCEPT ![t] = "istore"]
  /\ UNCHANGED <<segRest, store, storeFile, index, indexFile, seg, mu, done, calls>>

IndexGrowNone(size) == size

\* the size i.size += uint64(entWidth) stores
IndexGrow(size) == size + entWidth

\* i.size += uint64(entWidth), the store to i.size
SegIndexStore(t) ==
  /\ pc[t] = "istore"
  /\ index' = [index EXCEPT !.size = IndexGrow(loc[t].read)]
  /\ pc' = [pc EXCEPT ![t] = "nload"]
  /\ UNCHANGED <<segRest, store, storeFile, indexFile, seg, loc, mu, done, calls>>

\* s.nextOffset++, the load of s.nextOffset
SegNextLoad(t) ==
  /\ pc[t] = "nload"
  /\ loc' = [loc EXCEPT ![t].read = seg.nextOffset]
  /\ pc' = [pc EXCEPT ![t] = "nstore"]
  /\ UNCHANGED <<segRest, store, storeFile, index, indexFile, seg, mu, done, calls>>

\* s.nextOffset++, the store to s.nextOffset
SegNextStore(t) ==
  /\ pc[t] = "nstore"
  /\ seg' = [seg EXCEPT !.nextOffset = AppendNextOffset(loc[t].read)]
  /\ pc' = [pc EXCEPT ![t] = "return"]
  /\ UNCHANGED <<segRest, store, storeFile, index, indexFile, loc, mu, done, calls>>

\* return cur, nil or return 0, err; the caller releases the callers' mutex
SegReturn(t) ==
  /\ pc[t] = "return"
  /\ done' = Append(done, [t |-> t, op |-> "Append", value |-> loc[t].value,
                           off |-> IF loc[t].err = "nil" THEN loc[t].off ELSE 0,
                           pos |-> loc[t].pos, err |-> loc[t].err])
  /\ mu' = IF mu[2] = NoMutex THEN mu ELSE [mu EXCEPT ![2] = 0]
  /\ loc' = [loc EXCEPT ![t] = NoLocals]
  /\ pc' = [pc EXCEPT ![t] = "idle"]
  /\ UNCHANGED <<segRest, store, storeFile, index, indexFile, seg, calls>>

NextSegAppend ==
  \E t \in Threads :
    SegCall(t) \/ SegCur(t) \/ SegStore(t) \/ SegIndexPut(t) \/ SegIndexLoad(t)
    \/ SegIndexStore(t) \/ SegNextLoad(t) \/ SegNextStore(t) \/ SegReturn(t)

\* one segment under concurrent callers of Append
SpecSegAppend == InitSegAppend /\ [][NextSegAppend]_vars

\* ------------------------------------------- two stores, one variable err
\* calls the goroutines make on the two stores in all
ErrCalls == 3

\* the store a goroutine works on: goroutines 1 and 2 on different stores
StoreOf(t) == ((t - 1) % 2) + 1

\* the I/O steps whose result goes through the package-level err: the
\* Flush and the two File.ReadAt of store.Read, the Flush of store.Close
ErrSteps(op) == IF op = "Read" THEN 3 ELSE 1

\* what the calls on the two stores leave alone
errRest == <<segVars, records>>

\* two stores newStore has created, for two different segments
InitErr == SegIdle /\ ConcIdle

\* a goroutine calls store.Read(pos) or store.Close() on its store
ErrCall(t) ==
  /\ pc[t] = "idle"
  /\ calls < ErrCalls
  /\ \E op \in {"Read", "Close"} :
       loc' = [loc EXCEPT ![t] = [NoLocals EXCEPT !.op = op, !.obj = StoreOf(t)]]
  /\ pc' = [pc EXCEPT ![t] = "lock"]
  /\ calls' = calls + 1
  /\ UNCHANGED <<errRest, mu, done, gerr, stores>>

\* s.mu.Lock() on the goroutine's own store
ErrLock(t) ==
  /\ pc[t] = "lock"
  /\ ~Locked(mu[loc[t].obj])
  /\ mu' = [mu EXCEPT ![loc[t].obj] = t]
  /\ loc' = [loc EXCEPT ![t].step = 1]
  /\ pc' = [pc EXCEPT ![t] = "io"]
  /\ UNCHANGED <<errRest, done, calls, gerr, stores>>

\* err = s.buf.Flush() and _, err = s.File.ReadAt(...): the I/O step runs and
\* its result is stored in the package-level err. A Flush fails for good
\* once it has failed, a ReadAt of a closed file fails, any step may fail
ErrAssign(t) ==
  /\ pc[t] = "io"
  /\ \E ioOk \in BOOLEAN :
       LET o == loc[t].obj
           ok == IF loc[t].step = 1 THEN ioOk /\ ~stores[o].err
                 ELSE ioOk /\ stores[o].open
       IN /\ gerr' = IF ok THEN 0 ELSE t
          /\ stores' = IF loc[t].step = 1 /\ ~ok THEN [stores EXCEPT ![o].err = TRUE]
                       ELSE stores
          /\ loc' = [loc EXCEPT ![t].failed = loc[t].failed \/ ~ok]
  /\ pc' = [pc EXCEPT ![t] = "test"]
  /\ UNCHANGED <<errRest, mu, done, calls>>

\* ; err != nil: the package-level err is loaded and tested. After the last
\* step store.Read returns b, nil; store.Close goes on to File.Close
ErrTest(t) ==
  /\ pc[t] = "test"
  /\ IF gerr # 0 THEN
       /\ pc' = [pc EXCEPT ![t] = "ret"]
       /\ UNCHANGED loc
     ELSE IF loc[t].step < ErrSteps(loc[t].op) THEN
       /\ pc' = [pc EXCEPT ![t] = "io"]
       /\ loc' = [loc EXCEPT ![t].step = loc[t].step + 1]
     ELSE IF loc[t].op = "Close" THEN
       /\ pc' = [pc EXCEPT ![t] = "close"]
       /\ UNCHANGED loc
     ELSE
       /\ pc' = [pc EXCEPT ![t] = "unlock"]
       /\ loc' = [loc EXCEPT ![t].ret = 0]
  /\ UNCHANGED <<errRest, mu, done, calls, gerr, stores>>

\* return nil, err: the package-level err is loaded again and returned
ErrRet(t) ==
  /\ pc[t] = "ret"
  /\ loc' = [loc EXCEPT ![t].ret = gerr]
  /\ pc' = [pc EXCEPT ![t] = "unlock"]
  /\ UNCHANGED <<errRest, mu, done, calls, gerr, stores>>

\* return s.File.Close(): the result is returned as it is
ErrFileClose(t) ==
  /\ pc[t] = "close"
  /\ LET o == loc[t].obj
     IN /\ stores' = [stores EXCEPT ![o].open = FALSE]
        /\ loc' = [loc EXCEPT ![t].ret = IF stores[o].open THEN 0 ELSE t,
                              ![t].failed = loc[t].failed \/ ~stores[o].open]
  /\ pc' = [pc EXCEPT ![t] = "unlock"]
  /\ UNCHANGED <<errRest, mu, done, calls, gerr>>

\* the deferred s.mu.Unlock(), with which the call returns
ErrUnlock(t) ==
  /\ pc[t] = "unlock"
  /\ mu' = [mu EXCEPT ![loc[t].obj] = 0]
  /\ done' = Append(done, [t |-> t, op |-> loc[t].op, obj |-> loc[t].obj,
                           failed |-> loc[t].failed, ret |-> loc[t].ret])
  /\ loc' = [loc EXCEPT ![t] = NoLocals]
  /\ pc' = [pc EXCEPT ![t] = "idle"]
  /\ UNCHANGED <<errRest, calls, gerr, stores>>

NextErr ==
  \E t \in Threads :
    ErrCall(t) \/ ErrLock(t) \/ ErrAssign(t) \/ ErrTest(t) \/ ErrRet(t)
    \/ ErrFileClose(t) \/ ErrUnlock(t)

\* two stores of different segments under concurrent callers
SpecErr == InitErr /\ [][NextErr]_vars

\* ------------------------------------------------------------------ claims
\* the offsets the appends of hist returned
HistOffsets == {hist[i].offset : i \in 1..Len(hist)}

\* what segment.Read(hist[i].offset) returns when the file accepts the flush
ReadsBack(i) ==
  LET r == SegmentRead(hist[i].offset, TRUE)
  IN r.err = "nil" /\ r.Value = hist[i].value /\ r.Offset = hist[i].offset

\* C1: on a freshly created segment with base offset B, the i-th successful
\* Append (0-based) returns B+i, and Read(B+i) at any later point returns the
\* i-th payload with offset field B+i (unless the store's file refuses I/O).
C1_RoundTrip ==
  (seg.state = "open" /\ seg.fresh) =>
    /\ \A i \in 1..Len(hist) : hist[i].offset = baseOffset + i - 1
    /\ (last.op = "Append" /\ last.err = "nil") => last.off = baseOffset + Len(hist) - 1
    /\ ~store.err => \A i \in 1..Len(hist) : ReadsBack(i)
    /\ (last.op = "Read" /\ last.far = 0 /\ last.arg \in HistOffsets /\ last.err # "IO") =>
         /\ last.err = "nil"
         /\ last.value = hist[last.arg - baseOffset + 1].value
         /\ last.recOff = last.arg

C1_Witness ==
  /\ seg.state = "open" /\ seg.fresh /\ baseOffset = 5
  /\ Len(hist) = 3
  /\ last.op = "Read" /\ last.far = 0 /\ last.arg = 5 /\ last.err = "nil"
  /\ last.value = <<98, 98>>

\* C2: a CLose that returns no error followed by newSegment on the same
\* directory, base offset and config gives the nextOffset the closed segment
\* had, and every offset returned before still reads back its payload.
C2_CloseReopen ==
  (last.op = "Open" /\ last.arg = 1) =>
    /\ seg.nextOffset = last.prev
    /\ \A i \in 1..Len(hist) : ReadsBack(i)

C2_Witness ==
  /\ last.op = "Open" /\ last.arg = 1 /\ nOpens = 3
  /\ Len(hist) = 3 /\ hist[1].value = <<98, 98>>

\* C4: an Append that returns no error leaves nextOffset one above its value
\* before the call and returns that value; an Append that returns an error
\* leaves nextOffset as it was.
C4_AppendNextOffset ==
  last.op = "Append" =>
    IF last.err = "nil"
    THEN seg.nextOffset = last.prev + 1 /\ last.off = last.prev
    ELSE seg.nextOffset = last.prev

C4_Witness ==
  /\ last.op = "Append" /\ last.err = "EOF"
  /\ Len(hist) = 2 /\ seg.nextOffset = baseOffset + 2

C4_WitnessStoreFailure ==
  /\ last.op = "Append" /\ last.err = "IO" /\ Len(hist) >= 1

\* C3: after newSegment, nextOffset is baseOffset plus the number of entries
\* of the index (index size / 12), and baseOffset on a segment without files.
C3_OpenNextOffset ==
  last.op = "Open" =>
    /\ seg.nextOffset = baseOffset + index.size \div entWidth
    /\ last.arg = 0 => seg.nextOffset = baseOffset

C3_Witness ==
  /\ last.op = "Open" /\ last.arg = 2 /\ last.pos = config.MaxIndexBytes
  /\ Len(hist) = 0 /\ seg.nextOffset = baseOffset + 1

\* C5: IsMaxed is true exactly when the store size has reached the maximum
\* store bytes or the index size has reached the maximum index bytes.
C5_IsMaxed ==
  last.op = "IsMaxed" =>
    (last.flag <=> (store.size >= config.MaxStoreBytes \/ index.size >= config.MaxIndexBytes))

C5_Witness ==
  /\ last.op = "IsMaxed" /\ ~last.flag
  /\ index.size = config.MaxIndexBytes /\ store.size < config.MaxStoreBytes

\* the records of the store, buffered bytes included: their start positions
RECURSIVE RecordStarts(_, _)
RecordStarts(data, pos) ==
  IF Len(data) < pos + lenWidth THEN <<>>
  ELSE LET l == Uint(SubSeq(data, pos + 1, pos + lenWidth))
       IN IF Len(data) < pos + lenWidth + l THEN <<>>
          ELSE <<pos>> \o RecordStarts(data, pos + lenWidth + l)

StoreBytes == storeFile.data \o store.buf

\* the bytes of the store record that starts at pos
RecordAt(data, pos) ==
  SubSeq(data, pos + lenWidth + 1, pos + lenWidth + Uint(SubSeq(data, pos + 1, pos + lenWidth)))

\* C6: in every state of an open segment the index has at most as many
\* entries as the store has records, and entry r holds relative offset r and
\* the start position of the store record written by the Append that was
\* given offset baseOffset + r.
C6_IndexEntriesHaveRecords ==
  seg.state = "open" =>
    LET starts == RecordStarts(StoreBytes, 0)
        n == index.size \div entWidth
    IN /\ n <= Len(starts)
       /\ n = Len(hist)
       /\ \A r \in 0..(n - 1) :
            LET e == IndexRead(index, indexFile.data, r)
            IN /\ e.err = "nil"
               /\ e.out = r
               /\ hist[r + 1].offset = baseOffset + r
               /\ e.pos = hist[r + 1].pos
               /\ e.pos = starts[r + 1]
               /\ RecordAt(StoreBytes, e.pos) = Marshal(hist[r + 1].value, baseOffset + r)

C6_Witness ==
  /\ seg.state = "open" /\ last.op = "Append" /\ last.err = "EOF"
  /\ index.size \div entWidth = 2
  /\ Len(RecordStarts(StoreBytes, 0)) = 3

\* C7: when the process stopped before index.Close ran, so that the index
\* file is found with its preallocated length, newSegment recovers the size
\* K*12 of the K entries written, nextOffset is baseOffset + K, and the index
\* accepts a further entry while there is room for one.
C7_CrashRecovery ==
  (last.op = "Open" /\ last.arg = 2 /\ last.pos = config.MaxIndexBytes) =>
    /\ index.size = Len(hist) * entWidth
    /\ seg.nextOffset = baseOffset + Len(hist)
    /\ (Len(hist) + 1) * entWidth <= config.MaxIndexBytes => ~IndexIsFull(index)

C7_Witness ==
  /\ last.op = "Open" /\ last.arg = 2 /\ last.pos = config.MaxIndexBytes
  /\ Len(hist) = 1 /\ config.MaxIndexBytes = 36
  /\ index.size = 36 /\ IndexIsFull(index)

\* C8: after a Remove that returns no error neither file exists and both
\* files were closed; after a Remove that returns an error the steps after
\* the failing one were not executed.
C8_Remove ==
  last.op = "Remove" =>
    IF last.err = "nil"
    THEN ~indexFile.exists /\ ~storeFile.exists /\ ~index.open /\ ~store.open
    ELSE /\ last.arg <= 5 => indexFile.exists
         /\ storeFile.exists

C8_Witness ==
  /\ last.op = "Remove" /\ last.err = "nil"
  /\ ~indexFile.exists /\ ~storeFile.exists /\ store.open /\ Len(hist) >= 1

\* C9: an index.Write on an index whose mapped length is below size + 12
\* fails and leaves size and every byte of the index as they were; any other
\* index.Write puts the 12 bytes of its entry at byte offset size, adds 12 to
\* size and changes no other byte.
C9_IndexWrite ==
  [][(nAppends' = nAppends + 1 /\ last'.err # "IO") =>
       IF index.mmapLen < index.size + entWidth
       THEN /\ last'.err = "EOF"
            /\ index' = index
            /\ indexFile' = indexFile
       ELSE /\ last'.err = "nil"
            /\ index'.size = index.size + entWidth
            /\ Len(indexFile'.data) = Len(indexFile.data)
            /\ SubSeq(indexFile'.data, index.size + 1, index.size + entWidth)
                 = PutUint(last'.off - baseOffset, offWidth) \o PutUint(last'.pos, posWidth)
            /\ \A i \in 1..Len(indexFile.data) :
                 (i <= index.size \/ i > index.size + entWidth)
                   => indexFile'.data[i] = indexFile.data[i]]_vars

C9_Witness ==
  /\ last.op = "Append" /\ last.err = "EOF"
  /\ config.MaxIndexBytes = 30 /\ index.size = 24

\* C10: with K >= 1 entries, index.Read(-1) returns what index.Read(K-1)
\* returns: the pair handed to the most recent successful index.Write.
C10_ReadLast ==
  (seg.state = "open" /\ Len(hist) >= 1) =>
    LET k == Len(hist)
        e == IndexRead(index, indexFile.data, -1)
    IN /\ e = IndexRead(index, indexFile.data, k - 1)
       /\ e = [err |-> "nil", out |-> hist[k].offset - baseOffset, pos |-> hist[k].pos]
       /\ (last.op = "Open") => seg.nextOffset = baseOffset + e.out + 1

C10_Witness ==
  /\ seg.state = "open" /\ last.op = "Open" /\ Len(hist) = 3
  /\ IndexRead(index, indexFile.data, -1) = [err |-> "nil", out |-> 2, pos |-> hist[3].pos]

\* the number of entries index.Write has written to the open index
Entries == index.size \div entWidth

\* C11: index.Read never fabricates an entry: with K written entries,
\* index.Read(i) fails with EOF for every entry index i >= K (the index of a
\* segment.Read(off) is off - baseOffset), and every read of an empty index
\* fails with EOF.
C11_NeverFabricates ==
  (last.op = "Read" /\ index.open) =>
    LET r == RelIn(last.arg, baseOffset)
    IN /\ index.size = 0 => last.err = "EOF"
       /\ (last.far = 1 \/ r >= Entries) => last.err = "EOF"

\* index.Read(2^32 + j) has returned the pair of entry j < K
C11_Witness ==
  /\ last.op = "Read" /\ last.far = 1 /\ last.err = "nil" /\ index.open
  /\ RelIn(last.arg, baseOffset) \in 0..(Entries - 1)
  /\ last.recOff = last.arg

\* C16: segment.Read(off) returns an error for every off outside
\* [baseOffset, nextOffset), off = baseOffset - 1 and the offsets 2^32 and
\* more above baseOffset included.
C16_ReadOutsideRange ==
  (last.op = "Read" /\
   ~(last.far = 0 /\ last.arg >= baseOffset /\ last.arg < seg.nextOffset)) =>
    last.err # "nil"

\* segment.Read(baseOffset - 1) has returned the last record of the segment
C16_Witness ==
  /\ last.op = "Read" /\ last.far = 0 /\ last.arg = baseOffset - 1
  /\ last.err = "nil" /\ last.recOff = seg.nextOffset - 1
  /\ Len(hist) >= 1

\* what store.Read(pos) returns now when the file accepts the flush
StoreReadsBack(pos, p) ==
  LET r == StoreRead(store, storeFile.data, pos, TRUE)
  IN r.err = "nil" /\ r.bytes = p

\* a step of segment.Append, whose store.Append is given the marshalled record:
\* a store.Append that succeeds returns n = 8 + len(p) and pos = the size
\* before it, grows size by n, and store.Read(pos) returns p; one that fails
\* leaves size as it was
C12_AppendStep ==
  (nAppends' = nAppends + 1) =>
    LET p == Marshal(last'.value, last'.prev)
        r == StoreRead(store', storeFile'.data, last'.pos, TRUE)
    IN IF last'.err = "IO" THEN store'.size = store.size
       ELSE /\ last'.n = lenWidth + Len(p)
            /\ last'.pos = store.size
            /\ store'.size = store.size + last'.n
            /\ r.err = "nil" /\ r.bytes = p

\* every record a successful append stored is read back at its position,
\* however many later appends were made and whatever is still buffered
C12_LaterReads ==
  (seg.state = "open" /\ ~store.err) =>
    \A i \in 1..Len(hist) :
      StoreReadsBack(hist[i].pos, Marshal(hist[i].value, hist[i].offset))

\* C12: store read-after-write: each store.Append returns n = 8 + len(payload)
\* and pos = the store size before the call, size grows by exactly n and never
\* shrinks, and store.Read(pos) at any later time, with no flush by the caller
\* and later appends still buffered, returns exactly that payload.
C12_ReadAfterWrite == [][C12_AppendStep]_vars /\ []C12_LaterReads

\* three records stored, the first in the file, the last two still in the
\* buffer, none flushed by the caller
C12_Witness ==
  /\ seg.state = "open" /\ ~store.err /\ Len(hist) = 3
  /\ last.op = "Append" /\ last.err = "nil"
  /\ hist[2].pos >= Len(storeFile.data)
  /\ hist[1].pos < Len(storeFile.data)
  /\ StoreReadsBack(hist[2].pos, Marshal(hist[2].value, hist[2].offset))

\* C14: index.Close syncs the mapped region, then fsyncs the file, then
\* truncates the file to size bytes, then closes the handle; a failing step
\* aborts the later ones (a failed truncation leaves the file at its mapped
\* length); after a Close without error the index file's length is size, a
\* multiple of 12, not the preallocated maximum.
C14_IndexClose ==
  (last.op = "CLose") =>
    LET order == <<"msync", "fsync", "truncate", "close">>
        k == IF last.arg = 0 THEN 4 ELSE last.arg
    IN /\ last.steps = SubSeq(order, 1, k)
       /\ last.arg \in 1..3 => Len(indexFile.data) = index.mmapLen
       /\ last.arg \in 1..4 => last.err = "IO"
       /\ last.arg \in {0, 4} =>
            /\ Len(indexFile.data) = index.size
            /\ index.size % entWidth = 0

\* a Close without error has cut the file from its preallocated length down
\* to the one entry written
C14_Witness ==
  /\ last.op = "CLose" /\ last.err = "nil" /\ last.arg = 0
  /\ last.steps = <<"msync", "fsync", "truncate", "close">>
  /\ Len(indexFile.data) = entWidth /\ index.size = entWidth
  /\ index.mmapLen > entWidth

\* entry i (0-based) of the index file: [off, pos]
EntryAt(i) ==
  [off |-> Uint(SubSeq(indexFile.data, i * entWidth + 1, i * entWidth + offWidth)),
   pos |-> Uint(SubSeq(indexFile.data, i * entWidth + offWidth + 1, (i + 1) * entWidth))]

\* C17: in every state of an open segment, after any sequence of open, append,
\* close and reopen with the same config, the index size is a multiple of 12
\* and at most the mapped length, entry i holds the relative offset i, and the
\* positions of the entries increase strictly with i.
C17_IndexWellFormed ==
  index.open =>
    /\ index.size % entWidth = 0
    /\ index.size <= index.mmapLen
    /\ index.mmapLen = Len(indexFile.data)
    /\ \A i \in 0..(Entries - 1) : EntryAt(i).off = i
    /\ \A i, j \in 0..(Entries - 1) : i < j => EntryAt(i).pos < EntryAt(j).pos

\* a segment with base offset 5, closed and reopened, holding two entries, the
\* second written after the reopening
C17_Witness ==
  /\ index.open /\ baseOffset = 5 /\ nOpens >= 2 /\ Entries = 2
  /\ last.op = "Append" /\ last.err = "nil" /\ last.off = 6
  /\ EntryAt(1).off = 1 /\ EntryAt(0).pos < EntryAt(1).pos

\* C20: closed and removed are terminal: once CLose or Remove has returned
\* nil, no later Append on the instance returns success or advances
\* nextOffset, and no later Read returns a record.
C20_Terminal ==
  (seg.state \in {"closed", "removed"} /\ last.op \in {"Append", "Read"}) =>
    /\ last.err # "nil"
    /\ last.op = "Append" => seg.nextOffset = last.prev

\* an Append on a closed segment has returned an offset and advanced nextOffset
C20_Witness ==
  /\ seg.state = "closed" /\ last.op = "Append" /\ last.err = "nil"
  /\ seg.nextOffset = last.off + 1
  /\ ~store.open /\ ~index.open /\ Len(mmapTail) = entWidth

\* a Read on a removed segment has returned a record
C20_WitnessReadRemoved ==
  /\ seg.state = "removed" /\ last.op = "Read" /\ last.err = "nil"
  /\ last.far = 0 /\ last.recOff = last.arg

\* the appends among the calls that returned, in the order they returned
AppendsDone == SelectSeq(done, LAMBDA d : d.op = "Append")

\* C15: server.Log: the k-th Append to complete returns offset k-1, also
\* under concurrent callers (offsets 0, 1, 2, ... with no gap or duplicate);
\* Read(o) for o below the number of appended records returns the record
\* appended at offset o with Offset = o; Read(o) for o at or above it, Read(0)
\* of an empty log included, returns the empty Record and ErrOffsetNotFound.
C15_LogOffsets ==
  /\ \A k \in 1..Len(AppendsDone) : AppendsDone[k].off = k - 1
  /\ \A k \in 1..Len(records) : records[k].Offset = k - 1
  /\ \A t \in Threads :
       (pc[t] = "unlock" /\ loc[t].op = "Read") =>
         IF loc[t].arg < Len(records)
         THEN /\ loc[t].err = "nil"
              /\ loc[t].rec = records[loc[t].arg + 1]
              /\ loc[t].rec.Offset = loc[t].arg
         ELSE loc[t].err = "ErrOffsetNotFound" /\ loc[t].rec = EmptyRecord
  /\ \A k \in 1..Len(done) :
       done[k].op = "Read" =>
         IF done[k].err = "nil"
         THEN done[k].arg < Len(records) /\ done[k].rec = records[done[k].arg + 1]
         ELSE done[k].err = "ErrOffsetNotFound" /\ done[k].rec = EmptyRecord

\* Read(0) of the empty log has failed, then two goroutines have appended and
\* a Read(1) has returned the second record
C15_Witness ==
  /\ Len(done) = 4
  /\ done[1].op = "Read" /\ done[1].arg = 0 /\ done[1].err = "ErrOffsetNotFound"
  /\ done[2].op = "Append" /\ done[3].op = "Append" /\ done[2].t # done[3].t
  /\ done[3].off = 1
  /\ done[4].op = "Read" /\ done[4].arg = 1 /\ done[4].err = "nil"
  /\ done[4].rec = [Value |-> <<98, 98>>, Offset |-> 1]

\* the goroutines between the Lock and the Unlock of a method of the store
InCritical == {t \in Threads : pc[t] \notin {"idle", "lock"}}

\* the store.Append calls that returned a nil error, in the order they returned
StoredDone == SelectSeq(done, LAMBDA d : d.op = "Append" /\ d.err = "nil")

RECURSIVE SumN(_)
SumN(ds) == IF ds = <<>> THEN 0 ELSE Head(ds).n + SumN(Tail(ds))

\* C13: the operations on one store exclude each other: under every
\* interleaving of concurrent Append, Read, ReadAt and Close calls at most one
\* is inside its critical section; concurrent appends get distinct positions
\* whose byte ranges [pos, pos + 8 + len) do not overlap; and once the calls
\* have returned, size is the initial size plus the sum of 8 + len over the
\* successful appends.
C13_StoreExclusion ==
  /\ Cardinality(InCritical) <= 1
  /\ \A t \in InCritical : mu[1] = t
  /\ \A i \in 1..Len(StoredDone) :
       /\ StoredDone[i].n = lenWidth + Len(StoredDone[i].value)
       /\ \A j \in 1..Len(StoredDone) :
            i < j => StoredDone[i].pos + StoredDone[i].n <= StoredDone[j].pos
  /\ mu[1] = 0 => store.size = last.pos + SumN(StoredDone)

\* two goroutines were appending at the same time, one waiting for the lock
\* the other held, and both appends have returned
C13_Witness ==
  /\ Len(StoredDone) = 2 /\ StoredDone[1].t # StoredDone[2].t
  /\ Len(done) = 2 /\ calls = 2
  /\ StoredDone[2].pos = StoredDone[1].pos + StoredDone[1].n
  /\ store.size = last.pos + StoredDone[1].n + StoredDone[2].n
  /\ last.pos > 0

\* the segment.Append calls that returned an offset, in the order they returned
Appended == SelectSeq(done, LAMBDA d : d.op = "Append" /\ d.err = "nil")

\* C18: segment.Append is not atomic: two callers that do not serialize their
\* calls can both be returned the same offset, or leave the index advanced by
\* fewer than two entries (the witness); when the callers serialize all
\* their Append calls, every returned offset is unique, the offsets are
\* consecutive, and the index advances by one entry for each.
C18_SerializedUnique ==
  mu[2] # NoMutex =>
    /\ \A i, j \in 1..Len(Appended) : i < j => Appended[i].off # Appended[j].off
    /\ \A i \in 1..Len(Appended) : Appended[i].off = baseOffset + i - 1
    /\ (\A t \in Threads : pc[t] = "idle") =>
         /\ index.size = entWidth * Len(Appended)
         /\ seg.nextOffset = baseOffset + Len(Appended)

\* callers that do not serialize: two Append calls have returned the same
\* offset and the index has advanced by one entry only
C18_Witness ==
  /\ mu[2] = NoMutex
  /\ Len(Appended) = 2 /\ Len(done) = 2
  /\ Appended[1].t # Appended[2].t
  /\ Appended[1].off = Appended[2].off
  /\ index.size = entWidth
  /\ \A t \in Threads : pc[t] = "idle"

\* callers that serialize: two goroutines have appended, offsets 5 and 6
C18_WitnessSerialized ==
  /\ mu[2] = 0
  /\ Len(Appended) = 2 /\ Appended[1].t # Appended[2].t
  /\ Appended[1].off = 5 /\ Appended[2].off = 6
  /\ index.size = 2 * entWidth

\* C19: operations on different stores do not interfere: the error a call
\* returns is the outcome of its own I/O steps; a call one of whose I/O steps
\* failed never returns nil, and a call whose I/O steps all succeeded never
\* returns the error of another call.
C19_OwnError ==
  \A k \in 1..Len(done) :
    IF done[k].failed THEN done[k].ret # 0 ELSE done[k].ret = 0

\* two goroutines on different stores: a store.Read whose I/O steps all
\* succeeded has returned the error of the other goroutine's call
C19_Witness ==
  \E k \in 1..Len(done) :
    /\ done[k].op = "Read" /\ ~done[k].failed
    /\ done[k].ret # 0 /\ done[k].ret # done[k].t
    /\ StoreOf(done[k].ret) # done[k].obj

\* a call whose Flush failed has returned nil
C19_WitnessLostError ==
  \E k \in 1..Len(done) : done[k].failed /\ done[k].ret = 0

============================================================================
